---- MODULE Spec2Model ----
(***************************************************************************)
(* Alarm / valve-trend correlation of j7ll7/hello-repo.                    *)
(*                                                                         *)
(*   SpecB  models src/alarm.py: merge_alarm, mark_failure_period,         *)
(*          merge_drive_warnings, compute_summary, in the order of main(). *)
(*   SpecA  models the notebook script src/Alarm_algo.py: the as-of merge, *)
(*          the exact merge that replaces it, the alarm_flag cell and the  *)
(*          failure_period row loop.                                       *)
(*   SpecAB is either program.                                             *)
(*                                                                         *)
(* A data frame is a sequence of records; a row's index label is its       *)
(* position in the frame (all frames here carry a fresh RangeIndex).       *)
(* Time is counted in whole seconds.  A missing string is "NaN"; a column  *)
(* of instants or durations that may be missing holds sequences: <<>> for  *)
(* NaT / pd.NA, and the value in a sequence otherwise.                     *)
(***************************************************************************)
EXTENDS Integers, Sequences, FiniteSets, TLC

\* ---------------------------------------------------------------- bounds
MaxInput == 5       \* rows of all input frames together (trend + alarm file)
MaxRerun == 4       \* the same, for the runs of SpecRerun

\* ------------------------------------------------------ program constants
FlagWindow == 5     \* Alarm_algo.py:204  pd.Timedelta(seconds=5)
Horizon == 5        \* alarm.py:124       np.timedelta64(5, "s")
Dwell == 10         \* alarm.py:129       since2[i] >= 10

Assets == {1, 2}
\* A valve position that is missing (NaN) or is neither 1 nor 2: every test
\* the code makes on the column is == 1 or == 2, which NaN fails like any
\* other reading.
NaNValve == 0
ValvePositions == {NaNValve, 1, 2}
GapsA == {3, 4}                 \* seconds between two ticks, Alarm_algo.py
GapsB == {5, 10}                \* seconds between two ticks, alarm.py

VARIABLES
    pc,          \* position in main() / in the notebook's cells
    trend,       \* long-format trend frame, sorted by asset, DateTime
    alarm,       \* alarm frame (alarm_313 in alarm.py, alarm_df in the script)
    warnings,    \* drive-warning frame (alarm.py)
    merged,      \* the frame the detector and the reducer work on
    in_failure,  \* the detector's state variable
    i,           \* position of the detector's row loop
    summary      \* result of compute_summary: asset -> summary row

vars == <<pc, trend, alarm, warnings, merged, in_failure, i, summary>>

\* ------------------------------------------------------------- utilities
Min(S) == CHOOSE x \in S : \A y \in S : x <= y
Max(S) == CHOOSE x \in S : \A y \in S : x >= y

RECURSIVE Flatten(_)
Flatten(ss) == IF ss = <<>> THEN <<>> ELSE Head(ss) \o Flatten(Tail(ss))

\* Stable sort on two key columns: key[x] = <<first key, second key>> of
\* row x; the result lists the positions 1..Len(key) in sorted order.
StableOrder(key) ==
    LET n == Len(key)
        Less(x, y) == \/ key[x][1] < key[y][1]
                      \/ key[x][1] = key[y][1] /\ key[x][2] < key[y][2]
        Before(x, y) == Less(x, y) \/ (~Less(y, x) /\ x < y)
        Rank(x) == Cardinality({y \in 1..n : Before(y, x)}) + 1
    IN  [r \in 1..n |-> CHOOSE x \in 1..n : Rank(x) = r]

\* --------------------------------------------------------------- inputs
\* Tick instants: the first tick is 0, gaps[k] seconds lie between tick k
\* and tick k+1.
RECURSIVE TickTime(_, _)
TickTime(gaps, k) == IF k = 1 THEN 0 ELSE TickTime(gaps, k - 1) + gaps[k - 1]

\* unpivot_trend: one row per asset column and tick, sorted by asset, DateTime.
unpivot_trend(na, n, gaps, valve) ==
    [r \in 1..(na * n) |->
        LET a == ((r - 1) \div n) + 1
            k == ((r - 1) % n) + 1
        IN  [asset |-> a, DateTime |-> TickTime(gaps, k), valve_pos |-> valve[a][k]]]

\* tr is a trend frame of at most rows rows: na asset columns, n ticks.
IsTrendFrame(tr, Gaps, rows) ==
    \E na \in 1..Cardinality(Assets) :
        \E n \in {m \in 1..rows : na * m <= rows} :
            \E g \in [1..(n - 1) -> Gaps], v \in [1..na -> [1..n -> ValvePositions]] :
                tr = unpivot_trend(na, n, g, v)

AssetsOf(df) == {df[k].asset : k \in DOMAIN df}
TimesOf(df) == {df[k].DateTime : k \in DOMAIN df}

\* Event frames of at most len rows over the trend's assets and ticks (an
\* event on no tick joins nothing and is the same as no event).  Only the
\* relative order of events with the same (asset, DateTime) key reaches the
\* output of a merge, so the frames are enumerated in (asset, DateTime)
\* order, equal keys in either order.
EventOrdered(s) ==
    \A k \in 1..(Len(s) - 1) :
        \/ s[k].asset < s[k + 1].asset
        \/ s[k].asset = s[k + 1].asset /\ s[k].DateTime <= s[k + 1].DateTime

IsEventFrame(ev, Rows, len) ==
    \E m \in 0..len : \E s \in [1..m -> Rows] : EventOrdered(s) /\ ev = s

AlarmRowsB(tr) ==
    [DateTime : TimesOf(tr), asset : AssetsOf(tr), alarm : {"HiHi", "LoLo"}]

WarningRows(tr) ==
    [DateTime : TimesOf(tr), asset : AssetsOf(tr), drive_warning : {1}]

AlarmRowsA(tr) ==
    [DateTime : TimesOf(tr), asset : AssetsOf(tr), Alarm : {"HiHi"}]

\* ------------------------------------------------------------- pd.merge
\* pd.merge(left, right, on=["asset", "DateTime"], how="left"): every left
\* row, in left order, once per matching right row (in right order), or once
\* with a missing right side when nothing matches.  A merged pair holds the
\* left row and the right side as a sequence of no or one row.
KeyMatches(row, right) ==
    SelectSeq(right, LAMBDA e : e.asset = row.asset /\ e.DateTime = row.DateTime)

pd_merge(left, right) ==
    Flatten([k \in DOMAIN left |->
        LET m == KeyMatches(left[k], right)
        IN  IF m = <<>>
            THEN << <<left[k], <<>> >> >>
            ELSE [j \in DOMAIN m |-> <<left[k], <<m[j]>> >>]])

\* ====================================================== src/alarm.py ====

\* merge_alarm: the exact join, then alarm names mapped to +1 / -1 / 0.
MapAlarm(name) == IF name = "HiHi" THEN 1 ELSE IF name = "LoLo" THEN -1 ELSE 0

merge_alarm(tr, al) ==
    LET j == pd_merge(tr, al)
    IN  [k \in DOMAIN j |->
            [asset |-> j[k][1].asset, DateTime |-> j[k][1].DateTime,
             valve_pos |-> j[k][1].valve_pos,
             alarm |-> MapAlarm(IF j[k][2] = <<>> THEN "NaN" ELSE j[k][2][1].alarm)]]

\* SortAssetTime with a sort that is not stable: rows with equal keys come
\* out in the reverse of their input order.
SortAssetTime_ReverseTies(df) ==
    LET rev == [k \in DOMAIN df |-> df[Len(df) + 1 - k]]
        o == StableOrder([k \in DOMAIN rev |-> <<rev[k].asset, rev[k].DateTime>>])
    IN  [k \in DOMAIN rev |-> rev[o[k]]]

\* df.sort_values(["asset", "DateTime"]): a stable multi-key sort.
SortAssetTime(df) ==
    LET o == StableOrder([k \in DOMAIN df |-> <<df[k].asset, df[k].DateTime>>])
    IN  [k \in DOMAIN df |-> df[o[k]]]

\* group = df[df["asset"] == asset], as the set of its positions in df.
Group(df, a) == {k \in DOMAIN df : df[k].asset = a}

\* run2 = (~is_v2).cumsum() ; first2 = first timestamp of the run ;
\* since2 = ts - first2.
run2(df, k) ==
    Cardinality({j \in Group(df, df[k].asset) : j <= k /\ df[j].valve_pos # 2})

first2(df, k) ==
    df[Min({j \in Group(df, df[k].asset) : run2(df, j) = run2(df, k)})].DateTime

since2(df, k) == df[k].DateTime - first2(df, k)

\* OpenMask with ts >= t0 for ts > t0: the alarm's own sample may qualify.
OpenMask_NotStrict(df, k) ==
    \E j \in {m \in DOMAIN df : df[m].asset = df[k].asset} :
        /\ df[j].DateTime >= df[k].DateTime
        /\ df[j].DateTime <= df[k].DateTime + 5
        /\ df[j].valve_pos = 1

\* OpenMask with a look-ahead of twice the horizon.
OpenMask_WideHorizon(df, k) ==
    \E j \in {m \in DOMAIN df : df[m].asset = df[k].asset} :
        /\ df[j].DateTime > df[k].DateTime
        /\ df[j].DateTime <= df[k].DateTime + 2 * Horizon
        /\ df[j].valve_pos = 1

\* mask = (ts > t0) & (ts <= t0 + 5 s) & (valve == 1) ; mask.any()
OpenMask(df, k) ==
    \E j \in Group(df, df[k].asset) :
        /\ df[j].DateTime > df[k].DateTime
        /\ df[j].DateTime <= df[k].DateTime + Horizon
        /\ df[j].valve_pos = 1

\* One pass of the row loop's body: the new state and the row's label.
MarkStep(df, k, inF) ==
    IF ~inF
    THEN IF df[k].alarm = 1 /\ OpenMask(df, k)
         THEN [in_failure |-> TRUE, label |-> 1]
         ELSE [in_failure |-> FALSE, label |-> 0]
    ELSE IF df[k].valve_pos = 2 /\ since2(df, k) >= Dwell
         THEN [in_failure |-> FALSE, label |-> 0]
         ELSE [in_failure |-> TRUE, label |-> 1]

\* in_failure = False at the head of every asset's group.
FirstOfAsset(df, k) == k = Min(Group(df, df[k].asset))
\* StateBefore with the state carried from one asset's group into the next.
StateBefore_NoReset(df, k, inF) == inF
StateBefore(df, k, inF) == IF FirstOfAsset(df, k) THEN FALSE ELSE inF

\* merge_drive_warnings: the exact join, missing warnings filled with 0.
merge_drive_warnings(df, w) ==
    LET j == pd_merge(df, w)
    IN  [k \in DOMAIN j |->
            [asset |-> j[k][1].asset, DateTime |-> j[k][1].DateTime,
             valve_pos |-> j[k][1].valve_pos, alarm |-> j[k][1].alarm,
             failure_period_HiHi |-> j[k][1].failure_period_HiHi,
             drive_warning |-> IF j[k][2] = <<>> THEN 0 ELSE j[k][2][1].drive_warning]]

\* ------------------------------------------------------ compute_summary
\* df.sort_values(["DateTime", "asset"]) as the sequence of index labels.
SortTimeAsset(df) ==
    StableOrder([k \in DOMAIN df |-> <<df[k].DateTime, df[k].asset>>])

\* The index labels of one asset's group, in the sorted frame's order.
GroupLabels(df, a) == SelectSeq(SortTimeAsset(df), LAMBDA p : df[p].asset = a)

\* ((series.shift(1) == a) & (series == b)).sum()
count_transitions(series, a, b) ==
    Cardinality({k \in 2..Len(series) : series[k - 1] = a /\ series[k] = b})

\* first_failure_duration returning 0 minutes where the code returns pd.NA.
first_failure_duration_Zero(df, labels) ==
    LET ser == [k \in DOMAIN labels |-> df[labels[k]].failure_period_HiHi]
        times == [k \in DOMAIN labels |-> df[labels[k]].DateTime]
        mask_start == {k \in 2..Len(ser) : ser[k - 1] = 0 /\ ser[k] = 1}
    IN  IF mask_start = {} THEN <<0, 60>>
        ELSE LET start == Min(mask_start)
                 zeros == {k \in DOMAIN labels :
                              labels[k] >= labels[start] + 1 /\ ser[k] = 0}
             IN  IF zeros = {} THEN <<0, 60>>
                 ELSE <<times[Min(zeros)] - times[start], 60>>

\* first_failure_duration with the first 0 of the whole series for the first
\* 0 after the start (post = ser for post = ser.loc[start_idx + 1:]).
first_failure_duration_AnyZero(df, labels) ==
    LET ser == [k \in DOMAIN labels |-> df[labels[k]].failure_period_HiHi]
        times == [k \in DOMAIN labels |-> df[labels[k]].DateTime]
        mask_start == {k \in 2..Len(ser) : ser[k - 1] = 0 /\ ser[k] = 1}
    IN  IF mask_start = {} THEN <<>>
        ELSE LET start == Min(mask_start)
                 zeros == {k \in DOMAIN labels : ser[k] = 0}
             IN  IF zeros = {} THEN <<>>
                 ELSE <<times[Min(zeros)] - times[start], 60>>

\* first_failure_duration on one asset's group; labels[k] is the index label
\* of the k-th row of the group in time order.  The result is <<>> for pd.NA
\* and <<s, 60>> for s seconds / 60.0 minutes.
first_failure_duration(df, labels) ==
    LET ser == [k \in DOMAIN labels |-> df[labels[k]].failure_period_HiHi]
        times == [k \in DOMAIN labels |-> df[labels[k]].DateTime]
        mask_start == {k \in 2..Len(ser) : ser[k - 1] = 0 /\ ser[k] = 1}
    IN  IF mask_start = {} THEN <<>>
        ELSE LET start == Min(mask_start)
                 start_idx == labels[start]
                 \* ser.loc[start_idx + 1:] then post[post == 0]
                 zeros == {k \in DOMAIN labels :
                              labels[k] >= start_idx + 1 /\ ser[k] = 0}
             IN  IF zeros = {} THEN <<>>
                 ELSE <<times[Min(zeros)] - times[start], 60>>

compute_summary(df) ==
    [a \in AssetsOf(df) |->
        LET labels == GroupLabels(df, a)
            col(f) == [k \in DOMAIN labels |-> df[labels[k]][f]]
        IN  [High_pressure_failures |-> count_transitions(col("failure_period_HiHi"), 0, 1),
             Low_pressure_failures |-> count_transitions(col("alarm"), 0, -1),
             Rotary_feeder_failures |-> count_transitions(col("drive_warning"), 0, 1),
             failure_time_HiHi_injector_min |-> first_failure_duration(df, labels)]]

\* -------------------------------------------------------- main(), steps
InitB ==
    /\ pc = "merge_alarm"
    /\ IsTrendFrame(trend, GapsB, MaxInput)
    /\ IsEventFrame(alarm, AlarmRowsB(trend), MaxInput - Len(trend))
    /\ IsEventFrame(warnings, WarningRows(trend), MaxInput - Len(trend) - Len(alarm))
    /\ merged = <<>>
    /\ in_failure = FALSE
    /\ i = 1
    /\ summary = <<>>

MergeAlarm ==
    /\ pc = "merge_alarm"
    /\ merged' = merge_alarm(trend, alarm)
    /\ pc' = "mark_begin"
    /\ UNCHANGED <<trend, alarm, warnings, in_failure, i, summary>>

\* mark_failure_period, lines 105-106: sort, new column of zeros.
MarkBegin ==
    /\ pc = "mark_begin"
    /\ merged' = LET s == SortAssetTime(merged)
                 IN  [k \in DOMAIN s |->
                        [asset |-> s[k].asset, DateTime |-> s[k].DateTime,
                         valve_pos |-> s[k].valve_pos, alarm |-> s[k].alarm,
                         failure_period_HiHi |-> 0]]
    /\ i' = 1
    /\ in_failure' = FALSE
    /\ pc' = "mark_loop"
    /\ UNCHANGED <<trend, alarm, warnings, summary>>

\* mark_failure_period, lines 108-132: one row of one asset's group.
MarkRow ==
    /\ pc = "mark_loop"
    /\ i <= Len(merged)
    /\ LET r == MarkStep(merged, i, StateBefore(merged, i, in_failure))
       IN  /\ in_failure' = r.in_failure
           /\ merged' = [merged EXCEPT ![i].failure_period_HiHi = r.label]
    /\ i' = i + 1
    /\ pc' = IF i = Len(merged) THEN "merge_drive" ELSE "mark_loop"
    /\ UNCHANGED <<trend, alarm, warnings, summary>>

MergeDriveWarnings ==
    /\ pc = "merge_drive"
    /\ merged' = merge_drive_warnings(merged, warnings)
    /\ pc' = "summary"
    /\ UNCHANGED <<trend, alarm, warnings, in_failure, i, summary>>

ComputeSummary ==
    /\ pc = "summary"
    /\ summary' = compute_summary(merged)
    /\ pc' = "done"
    /\ UNCHANGED <<trend, alarm, warnings, merged, in_failure, i>>

NextB == MergeAlarm \/ MarkBegin \/ MarkRow \/ MergeDriveWarnings \/ ComputeSummary

SpecB == InitB /\ [][NextB]_vars

\* mark_failure_period as one function of its argument frame, lines 104-133:
\* the sort, the label column set to 0, then the row loop over every asset's
\* group.  MarkRows(df, k) is the state and the frame after rows 1..k.
RECURSIVE MarkRows(_, _)
MarkRows(df, k) ==
    IF k = 0 THEN [in_failure |-> FALSE, df |-> df]
    ELSE LET p == MarkRows(df, k - 1)
             r == MarkStep(p.df, k, StateBefore(p.df, k, p.in_failure))
         IN  [in_failure |-> r.in_failure,
              df |-> [p.df EXCEPT ![k].failure_period_HiHi = r.label]]

mark_failure_period(df) ==
    LET s == SortAssetTime(df)
        z == [k \in DOMAIN s |->
                [asset |-> s[k].asset, DateTime |-> s[k].DateTime,
                 valve_pos |-> s[k].valve_pos, alarm |-> s[k].alarm,
                 failure_period_HiHi |-> 0]]
    IN  MarkRows(z, Len(z)).df

\* ================================================= src/Alarm_algo.py ====

\* asof_for_asset with the asset filter on alarm_df left out.
asof_for_asset_AllAlarms(asset, trend_grp) ==
    [k \in DOMAIN trend_grp |->
        LET cand == {j \in DOMAIN alarm : alarm[j].DateTime <= trend_grp[k].DateTime}
            last == Max({j \in cand : \A c \in cand : alarm[c].DateTime <= alarm[j].DateTime})
        IN  [asset |-> trend_grp[k].asset, DateTime |-> trend_grp[k].DateTime,
             valve_pos |-> trend_grp[k].valve_pos,
             Alarm |-> IF cand = {} THEN "NaN" ELSE alarm[last].Alarm,
             asset_alarm |-> IF cand = {} THEN <<>> ELSE <<alarm[last].asset>>]]

\* Lines 139-152: pd.merge_asof(trend_grp, alarms, on='DateTime',
\* direction='backward'), no tolerance: one row per trend row, carrying the
\* last of the asset's alarm rows whose DateTime is at or before the row's,
\* or nothing.  The right frame's asset column comes out as asset_alarm,
\* <<>> when missing.
asof_for_asset(asset, trend_grp) ==
    LET alarms == SelectSeq(alarm, LAMBDA e : e.asset = asset)
    IN  [k \in DOMAIN trend_grp |->
            LET cand == {j \in DOMAIN alarms :
                            alarms[j].DateTime <= trend_grp[k].DateTime}
            IN  [asset |-> trend_grp[k].asset, DateTime |-> trend_grp[k].DateTime,
                 valve_pos |-> trend_grp[k].valve_pos,
                 Alarm |-> IF cand = {} THEN "NaN" ELSE alarms[Max(cand)].Alarm,
                 asset_alarm |-> IF cand = {} THEN <<>> ELSE <<alarms[Max(cand)].asset>>]]

\* Lines 155-160: trend.groupby('asset').apply(asof_for_asset), the groups
\* in ascending asset order.
RECURSIVE asof_merge(_, _)
asof_merge(tr, todo) ==
    IF todo = {} THEN <<>>
    ELSE LET a == Min(todo)
         IN  asof_for_asset(a, SelectSeq(tr, LAMBDA r : r.asset = a))
                 \o asof_merge(tr, todo \ {a})

\* Line 173: merged = pd.merge(trend, alarm_df, on=[DateTime, asset], how=left)
exact_merge(tr, al) ==
    LET j == pd_merge(tr, al)
    IN  [k \in DOMAIN j |->
            [asset |-> j[k][1].asset, DateTime |-> j[k][1].DateTime,
             valve_pos |-> j[k][1].valve_pos,
             Alarm |-> IF j[k][2] = <<>> THEN "NaN" ELSE j[k][2][1].Alarm]]

\* merged.sort_values('DateTime'): a single-key sort, numpy's quicksort, which
\* is not stable: rows of equal DateTime come out in an order the build picks.
\* The orders are sequences of positions of df over the position set S.
RECURSIVE TimeOrders(_, _)
TimeOrders(df, S) ==
    IF S = {} THEN { <<>> }
    ELSE UNION { { <<x>> \o t : t \in TimeOrders(df, S \ {x}) }
               : x \in {y \in S : \A z \in S : df[y].DateTime <= df[z].DateTime} }

\* Lines 197-200: alarm_time = DateTime where Alarm is present and not blank,
\* forward-filled down the frame: <<>> for NaT, <<t>> for the instant t.
HasAlarm(row) == row.Alarm # "NaN" /\ row.Alarm # ""

alarm_time(df, k) ==
    LET marked == {j \in 1..k : HasAlarm(df[j])}
    IN  IF marked = {} THEN <<>> ELSE <<df[Max(marked)].DateTime>>

\* Lines 203-205: (DateTime - alarm_time) <= 5 s, NaT compares False.
alarm_flag(df, k) ==
    LET at == alarm_time(df, k)
    IN  IF at = <<>> THEN 0
        ELSE IF df[k].DateTime - at[1] <= FlagWindow THEN 1 ELSE 0

\* The alarm_flag cell on the frame df taken in the order o.
flag_cell(df, o) ==
    LET s == [k \in DOMAIN o |-> df[o[k]]]
    IN  [k \in DOMAIN s |->
            [asset |-> s[k].asset, DateTime |-> s[k].DateTime,
             valve_pos |-> s[k].valve_pos, Alarm |-> s[k].Alarm,
             alarm_time |-> alarm_time(s, k), alarm_flag |-> alarm_flag(s, k)]]

\* LoopStep closing a failure period only once the alarm flag is gone.
LoopStep_CloseNeedsNoFlag(inF, row) ==
    IF inF = 0 /\ row.alarm_flag = 1 /\ row.valve_pos = 1 THEN 1
    ELSE IF inF = 1 /\ row.valve_pos = 2 /\ row.alarm_flag = 0 THEN 0
    ELSE inF

\* LoopStep with the valve test of the opening condition left out.
LoopStep_NoValveTest(inF, row) ==
    IF inF = 0 /\ row.alarm_flag = 1 THEN 1
    ELSE IF inF = 1 /\ row.valve_pos = 2 THEN 0
    ELSE inF

\* Lines 222-226: the body of the row loop, the new value of in_failure.
LoopStep(inF, row) ==
    IF inF = 0 /\ row.alarm_flag = 1 /\ row.valve_pos = 1 THEN 1
    ELSE IF inF = 1 /\ row.valve_pos = 2 THEN 0
    ELSE inF

InitA ==
    /\ pc = "asof"
    /\ IsTrendFrame(trend, GapsA, MaxInput)
    /\ IsEventFrame(alarm, AlarmRowsA(trend), MaxInput - Len(trend))
    /\ warnings = <<>>
    /\ merged = <<>>
    /\ in_failure = 0
    /\ i = 1
    /\ summary = <<>>

\* Lines 155-160.
AsofMerge ==
    /\ pc = "asof"
    /\ merged' = asof_merge(trend, AssetsOf(trend))
    /\ pc' = "merge"
    /\ UNCHANGED <<trend, alarm, warnings, in_failure, i, summary>>

\* Lines 173-178: merged is replaced by the exact join.
ExactMerge ==
    /\ pc = "merge"
    /\ merged' = exact_merge(trend, alarm)
    /\ pc' = "alarm_flag"
    /\ UNCHANGED <<trend, alarm, warnings, in_failure, i, summary>>

\* Lines 192-205.
AlarmFlagCell ==
    /\ pc = "alarm_flag"
    /\ \E o \in TimeOrders(merged, DOMAIN merged) : merged' = flag_cell(merged, o)
    /\ pc' = "loop_begin"
    /\ UNCHANGED <<trend, alarm, warnings, in_failure, i, summary>>

\* Lines 213-217: sort by asset and time, new column of zeros, in_failure = 0.
LoopBegin ==
    /\ pc = "loop_begin"
    /\ merged' = LET s == SortAssetTime(merged)
                 IN  [k \in DOMAIN s |->
                        [asset |-> s[k].asset, DateTime |-> s[k].DateTime,
                         valve_pos |-> s[k].valve_pos, Alarm |-> s[k].Alarm,
                         alarm_time |-> s[k].alarm_time,
                         alarm_flag |-> s[k].alarm_flag, failure_period |-> 0]]
    /\ in_failure' = 0
    /\ i' = 1
    /\ pc' = "loop"
    /\ UNCHANGED <<trend, alarm, warnings, summary>>

\* Lines 220-229: one row.
LoopRow ==
    /\ pc = "loop"
    /\ i <= Len(merged)
    /\ in_failure' = LoopStep(in_failure, merged[i])
    /\ merged' = [merged EXCEPT ![i].failure_period = in_failure']
    /\ i' = i + 1
    /\ pc' = IF i = Len(merged) THEN "done" ELSE "loop"
    /\ UNCHANGED <<trend, alarm, warnings, summary>>

NextA == AsofMerge \/ ExactMerge \/ AlarmFlagCell \/ LoopBegin \/ LoopRow

SpecA == InitA /\ [][NextA]_vars

\* The failure_period cell as one function of its argument frame, lines
\* 213-229: the sort, the column of zeros, in_failure = 0, then the row loop;
\* its result is the state and the frame the cell leaves behind.
\* LoopRows(df, k) is the state and the frame after rows 1..k.
RECURSIVE LoopRows(_, _)
LoopRows(df, k) ==
    IF k = 0 THEN [in_failure |-> 0, df |-> df]
    ELSE LET p == LoopRows(df, k - 1)
             f == LoopStep(p.in_failure, p.df[k])
         IN  [in_failure |-> f, df |-> [p.df EXCEPT ![k].failure_period = f]]

\* Lines 213-216: the sorted frame with its new column of zeros.
LoopFrame(df) ==
    LET s == SortAssetTime(df)
    IN  [k \in DOMAIN s |->
            [asset |-> s[k].asset, DateTime |-> s[k].DateTime,
             valve_pos |-> s[k].valve_pos, Alarm |-> s[k].Alarm,
             alarm_time |-> s[k].alarm_time,
             alarm_flag |-> s[k].alarm_flag, failure_period |-> 0]]

failure_period_cell(df) == LoopRows(LoopFrame(df), Len(df))

\* ------------------------------------------------------- either program
InitAB == InitA \/ InitB
NextAB == NextA \/ NextB
SpecAB == InitAB /\ [][NextAB]_vars

\* ------------------------------------------- the detectors, run twice
\* Each detector as one step from the program's inputs to the labelled
\* frame, and a second run of the detector on that labelled frame.  In
\* Alarm_algo.py in_failure and the frame are globals of the script; in
\* alarm.py the state is local to mark_failure_period.
InitRerun ==
    /\ \/ /\ pc = "detect_a"
          /\ IsTrendFrame(trend, GapsA, MaxRerun)
          /\ IsEventFrame(alarm, AlarmRowsA(trend), MaxRerun - Len(trend))
          /\ in_failure = 0
       \/ /\ pc = "detect_b"
          /\ IsTrendFrame(trend, GapsB, MaxRerun)
          /\ IsEventFrame(alarm, AlarmRowsB(trend), MaxRerun - Len(trend))
          /\ in_failure = FALSE
    /\ warnings = <<>>
    /\ merged = <<>>
    /\ i = 1
    /\ summary = <<>>

\* Alarm_algo.py lines 173-229: exact merge, alarm_flag cell, failure_period
\* cell.
DetectA ==
    /\ pc = "detect_a"
    /\ \E o \in TimeOrders(exact_merge(trend, alarm),
                           DOMAIN exact_merge(trend, alarm)) :
           LET r == failure_period_cell(flag_cell(exact_merge(trend, alarm), o))
           IN  merged' = r.df /\ in_failure' = r.in_failure
    /\ i' = Len(merged') + 1
    /\ pc' = "labelled_a"
    /\ UNCHANGED <<trend, alarm, warnings, summary>>

\* The failure_period cell, lines 213-229, on the frame it has labelled.
RerunA ==
    /\ pc = "labelled_a"
    /\ LET r == failure_period_cell(merged)
       IN  merged' = r.df /\ in_failure' = r.in_failure
    /\ pc' = "rerun_a"
    /\ UNCHANGED <<trend, alarm, warnings, i, summary>>

\* alarm.py lines 200-201: merge_alarm, then mark_failure_period.
DetectB ==
    /\ pc = "detect_b"
    /\ merged' = mark_failure_period(merge_alarm(trend, alarm))
    /\ pc' = "labelled_b"
    /\ UNCHANGED <<trend, alarm, warnings, in_failure, i, summary>>

\* mark_failure_period, lines 104-133, on the frame it has returned.
RerunB ==
    /\ pc = "labelled_b"
    /\ merged' = mark_failure_period(merged)
    /\ pc' = "rerun_b"
    /\ UNCHANGED <<trend, alarm, warnings, in_failure, i, summary>>

NextRerun == DetectA \/ RerunA \/ DetectB \/ RerunB

SpecRerun == InitRerun /\ [][NextRerun]_vars

\* ================================================ claims, Alarm_algo.py ==

Labels(df, f) == [k \in DOMAIN df |-> df[k][f]]

\* The transition rule of the flag-debounce detector as the specification
\* states it: 0 is NORMAL, 1 is IN_FAILURE.
TransitionA(state, flag, valve) ==
    IF state = 0 THEN (IF flag = 1 /\ valve = 1 THEN 1 ELSE 0)
    ELSE (IF valve = 2 THEN 0 ELSE 1)

\* One asset, samples at 0 s (alarm, valve 1), 3 s (valve 1), 7 s (valve 2).
ScenarioA ==
    /\ trend = << [asset |-> 1, DateTime |-> 0, valve_pos |-> 1],
                  [asset |-> 1, DateTime |-> 3, valve_pos |-> 1],
                  [asset |-> 1, DateTime |-> 7, valve_pos |-> 2] >>
    /\ alarm = << [DateTime |-> 0, asset |-> 1, Alarm |-> "HiHi"] >>

\* C1: every pass of the row loop writes, as the row's failure_period, the
\* state reached by applying the transition rule to the state before the row
\* and the row's alarm_flag and valve position; the three-sample scenario is
\* labelled 1, 1, 0.
C1_LabelIsStateAfterTransition ==
    /\ [][pc = "loop" =>
            /\ in_failure' = TransitionA(in_failure, merged[i].alarm_flag,
                                         merged[i].valve_pos)
            /\ merged'[i].failure_period = in_failure']_vars
    /\ [](pc = "done" /\ ScenarioA => Labels(merged, "failure_period") = <<1, 1, 0>>)

C1_Witness ==
    /\ pc = "done"
    /\ ScenarioA
    /\ Labels(merged, "failure_period") = <<1, 1, 0>>
    /\ Labels(merged, "alarm_flag") = <<1, 1, 0>>

\* C4: the first sample of every asset is labelled 1 only if that sample has
\* alarm_flag 1 and valve position 1.
C4_NoStateAcrossAssets ==
    pc \in {"loop", "done"} =>
        \A k \in 1..(i - 1) :
            (FirstOfAsset(merged, k) /\ merged[k].failure_period = 1) =>
                merged[k].alarm_flag = 1 /\ merged[k].valve_pos = 1

\* The alarm events of asset a at or before the instant t.
AlarmsUpTo(a, t) == {k \in DOMAIN alarm : alarm[k].asset = a /\ alarm[k].DateTime <= t}

\* C5: alarm_flag is 1 exactly when the sample lies at most 5 s after the
\* most recent alarm event of its own asset at or before it.
C5_FlagFollowsOwnAlarm ==
    pc \in {"loop_begin", "loop", "done"} =>
        \A k \in DOMAIN merged :
            LET own == AlarmsUpTo(merged[k].asset, merged[k].DateTime)
            IN  merged[k].alarm_flag = 1 <=>
                    /\ own # {}
                    /\ merged[k].DateTime - Max({alarm[e].DateTime : e \in own}) <= 5

\* ====================================================== claims, alarm.py ==

\* The rows the detector has labelled so far.
Marked == IF pc \in {"mark_loop", "merge_drive"} THEN 1..(i - 1) ELSE {}

Label(k) == merged[k].failure_period_HiHi

\* Row k opens a run of 1-labels of its asset.
RunStart(k) ==
    /\ Label(k) = 1
    /\ FirstOfAsset(merged, k) \/ Label(k - 1) = 0

\* The opening condition as the specification states it: a HiHi alarm on the
\* sample and a strictly later sample of the asset, at most 5 s later, with
\* the valve in position 1.
QualifiesB(df, k) ==
    /\ df[k].alarm = 1
    /\ \E j \in DOMAIN df :
          /\ df[j].asset = df[k].asset
          /\ df[j].DateTime > df[k].DateTime
          /\ df[j].DateTime - df[k].DateTime <= 5
          /\ df[j].valve_pos = 1

\* C2: a sample met in NORMAL is labelled 1 exactly when it is a HiHi sample
\* with a later valve-1 sample of its asset within 5 s, and every run of
\* 1-labels of an asset begins at such a sample.
C2_OpensOnQualifyingSample ==
    /\ [][pc = "mark_loop" /\ ~StateBefore(merged, i, in_failure) =>
            (merged'[i].failure_period_HiHi = 1 <=> QualifiesB(merged, i))]_vars
    /\ [](\A k \in Marked : RunStart(k) => QualifiesB(merged, k))

C2_Witness ==
    /\ pc = "merge_drive"
    /\ \E k \in Marked : RunStart(k) /\ QualifiesB(merged, k) /\ merged[k].DateTime = 0
    /\ \E k \in Marked : merged[k].alarm = 1 /\ Label(k) = 0

\* The instant at which the valve entered position 2, for a row k in position
\* 2: the first row of the run of position-2 rows of the asset that ends at k.
EnteredV2(df, k) ==
    df[Min({j \in 1..k : \A m \in j..k :
                df[m].asset = df[k].asset /\ df[m].valve_pos = 2})].DateTime

\* C3: a sample closes a failure period (is labelled 0 after a 1-labelled
\* sample of its asset) only if its valve position is 2 and the valve has
\* been in position 2 for at least 10 s since it entered that position.
C3_CloseOnlyAfterDwell ==
    \A k \in Marked :
        (~FirstOfAsset(merged, k) /\ Label(k - 1) = 1 /\ Label(k) = 0) =>
            /\ merged[k].valve_pos = 2
            /\ merged[k].DateTime - EnteredV2(merged, k) >= 10

\* C6: the exact join keeps one row per trend row, asset by asset.
C6_JoinKeepsRowCount ==
    pc # "merge_alarm" =>
        \A a \in Assets :
            Cardinality(Group(merged, a)) = Cardinality(Group(trend, a))

\* One asset's rows of the labelled frame, in time order.
AssetRows(a) == SelectSeq(merged, LAMBDA r : r.asset = a)

\* Number of failure episodes: maximal runs of 1-labels.
Episodes(rows) ==
    Cardinality({k \in DOMAIN rows :
        /\ rows[k].failure_period_HiHi = 1
        /\ k = 1 \/ rows[k - 1].failure_period_HiHi = 0})

\* C7: the failure count of an asset is its number of failure episodes.
C7_CountIsEpisodes ==
    pc = "done" =>
        \A a \in DOMAIN summary :
            summary[a].High_pressure_failures = Episodes(AssetRows(a))

Ones(rows) == {k \in DOMAIN rows : rows[k].failure_period_HiHi = 1}
ZerosAfter(rows, k) == {z \in DOMAIN rows : z > k /\ rows[z].failure_period_HiHi = 0}

\* C8: when an asset has a closed failure episode, the duration is the time
\* from the opening sample of its earliest episode to the first 0-labelled
\* sample after it, in minutes.
C8_DurationOfEarliestEpisode ==
    pc = "done" =>
        \A a \in DOMAIN summary :
            LET rows == AssetRows(a)
            IN  (Ones(rows) # {} /\ ZerosAfter(rows, Min(Ones(rows))) # {}) =>
                    summary[a].failure_time_HiHi_injector_min =
                        << rows[Min(ZerosAfter(rows, Min(Ones(rows))))].DateTime
                               - rows[Min(Ones(rows))].DateTime, 60 >>

\* C9: when an asset's failure episode opens and never closes, the duration
\* is missing and the failure count is 1.
C9_OpenEpisodeCounted ==
    pc = "done" =>
        \A a \in DOMAIN summary :
            LET rows == AssetRows(a)
            IN  (Ones(rows) # {} /\ ZerosAfter(rows, Min(Ones(rows))) = {}) =>
                    /\ summary[a].failure_time_HiHi_injector_min = <<>>
                    /\ summary[a].High_pressure_failures = 1

\* Number of 0-to-1 transitions of a binary series.
Rises(bits) == Cardinality({k \in 2..Len(bits) : ~bits[k - 1] /\ bits[k]})

\* C10: the LoLo count is the number of 0-to-1 transitions of the series
\* "this sample carries a LoLo alarm", and the drive-warning count that of
\* the series "this sample carries a drive warning".
C10_SecondaryCountsAreRises ==
    pc = "done" =>
        \A a \in DOMAIN summary :
            LET rows == AssetRows(a)
            IN  /\ summary[a].Low_pressure_failures =
                      Rises([k \in DOMAIN rows |-> rows[k].alarm = -1])
                /\ summary[a].Rotary_feeder_failures =
                      Rises([k \in DOMAIN rows |-> rows[k].drive_warning = 1])

\* --------------------------------------------------------- C11 (alarm.py)
\* An asset with no failure episode and no secondary alarm on any of its rows.
Quiet(a) ==
    /\ Episodes(AssetRows(a)) = 0
    /\ \A k \in DOMAIN merged :
           merged[k].asset = a => merged[k].alarm # -1 /\ merged[k].drive_warning # 1

NoEvents(a) ==
    /\ \A k \in DOMAIN alarm : alarm[k].asset # a
    /\ \A k \in DOMAIN warnings : warnings[k].asset # a

\* C11: the summary has one row for every asset of the labelled stream, and
\* an asset without failure episodes and without secondary alarms has the
\* three counts 0 and a missing duration; the run ends without error also
\* when an asset has no alarm and no drive-warning event at all.
C11_OneRowPerAssetQuietIsZero ==
    pc = "done" =>
        /\ DOMAIN summary = AssetsOf(trend)
        /\ DOMAIN summary = AssetsOf(merged)
        /\ \A a \in AssetsOf(merged) :
               Quiet(a) =>
                   summary[a] = [High_pressure_failures |-> 0,
                                 Low_pressure_failures |-> 0,
                                 Rotary_feeder_failures |-> 0,
                                 failure_time_HiHi_injector_min |-> <<>>]

\* An asset without any event is summarised next to one that has events.
C11_Witness ==
    /\ pc = "done"
    /\ \E a, b \in DOMAIN summary :
           /\ NoEvents(a) /\ Quiet(a)
           /\ summary[a].High_pressure_failures = 0
           /\ summary[a].failure_time_HiHi_injector_min = <<>>
           /\ ~NoEvents(b) /\ ~Quiet(b)

\* --------------------------------------------------------- C12 (alarm.py)
\* C12: the labels of an asset depend on that asset's own samples only: in
\* a frame that holds other assets too, they are the labels the detector
\* gives to the asset's samples taken alone, whatever the samples of the
\* other assets are.
C12_LabelsFromOwnSamplesOnly ==
    pc = "merge_drive" =>
        \A a, b \in AssetsOf(merged) :
            a # b =>
                Labels(AssetRows(a), "failure_period_HiHi") =
                    Labels(mark_failure_period(AssetRows(a)), "failure_period_HiHi")

\* An asset whose first sample follows, in the frame, an asset whose last
\* sample is inside a failure period.
C12_Witness ==
    /\ pc = "merge_drive"
    /\ \E k \in 2..Len(merged) :
           /\ merged[k - 1].asset # merged[k].asset
           /\ merged[k - 1].failure_period_HiHi = 1
           /\ merged[k].failure_period_HiHi = 0
           /\ merged[k].valve_pos # 2

\* ----------------------------------------------- C13 (both programs)
\* C13: the detector is idempotent: run again on its own labelled output,
\* label column present, it gives every sample the label it already has.
C13_DetectorIdempotent ==
    [][(pc = "labelled_a" \/ pc = "labelled_b") => merged' = merged]_vars

\* The second run has happened on a frame with samples inside and outside a
\* failure period.
C13_Witness ==
    /\ pc \in {"rerun_a", "rerun_b"}
    /\ \E j, k \in DOMAIN merged :
           /\ j < k
           /\ merged[j].asset = merged[k].asset
           /\ IF pc = "rerun_a"
              THEN merged[j].failure_period = 1 /\ merged[k].failure_period = 0
              ELSE merged[j].failure_period_HiHi = 1
                       /\ merged[k].failure_period_HiHi = 0

\* The script has finished its row loop.
LoopDone == pc = "done" /\ DOMAIN summary = {}

\* ----------------------------------------------- C14 (both programs)
\* The rows the script's loop has labelled so far.
Looped == IF pc = "loop" \/ LoopDone THEN 1..(i - 1) ELSE {}

\* C14: in both programs a sample whose valve position is missing triggers no
\* transition: its label is the label of the asset's previous sample, or 0
\* when it is the asset's first sample, whatever alarm it carries.
C14_MissingValveHoldsState ==
    /\ \A k \in Marked :
           merged[k].valve_pos = NaNValve =>
               Label(k) = IF FirstOfAsset(merged, k) THEN 0 ELSE Label(k - 1)
    /\ \A k \in Looped :
           merged[k].valve_pos = NaNValve =>
               merged[k].failure_period =
                   IF FirstOfAsset(merged, k) THEN 0 ELSE merged[k - 1].failure_period

\* ------------------------------------------ C15, C16 (Alarm_algo.py)
\* The instant of the asset's most recent alarm at or before row k of the
\* as-of merge, when there is one.
LastAlarmTime(k) ==
    Max({alarm[e].DateTime : e \in AlarmsUpTo(merged[k].asset, merged[k].DateTime)})

Annotated(k) == merged[k].Alarm # "NaN"

\* C15: the as-of merge attaches the asset's most recent alarm at or before a
\* trend row only when that alarm lies within the look-back window, here the
\* 5 s alarm-recency window; a row whose most recent alarm is older than the
\* window carries no alarm.
C15_AsofWithinLookBack ==
    pc = "merge" =>
        \A k \in DOMAIN merged :
            Annotated(k) =>
                /\ AlarmsUpTo(merged[k].asset, merged[k].DateTime) # {}
                /\ merged[k].DateTime - LastAlarmTime(k) <= FlagWindow

\* C16: the as-of merge has one row for every trend row; an alarm on a row
\* is an alarm event of the row's own asset at or before the row's instant;
\* the rows of an asset without alarm events carry no alarm.
C16_AsofOneRowOwnAssetAlarm ==
    pc = "merge" =>
        /\ Len(merged) = Len(trend)
        /\ \A k \in DOMAIN merged :
               /\ merged[k].asset = trend[k].asset
               /\ merged[k].DateTime = trend[k].DateTime
               /\ merged[k].valve_pos = trend[k].valve_pos
               /\ Annotated(k) =>
                      /\ merged[k].asset_alarm = <<merged[k].asset>>
                      /\ \E e \in AlarmsUpTo(merged[k].asset, merged[k].DateTime) :
                             alarm[e].Alarm = merged[k].Alarm
               /\ ~Annotated(k) => merged[k].asset_alarm = <<>>
               /\ AlarmsUpTo(merged[k].asset, merged[k].DateTime) = {} => ~Annotated(k)

\* One asset's row carries an earlier alarm of its own while the other asset
\* has no alarm event and a row at or after that alarm's instant.
C16_Witness ==
    /\ pc = "merge"
    /\ \E j, k \in DOMAIN merged :
           /\ Annotated(j)
           /\ LastAlarmTime(j) < merged[j].DateTime
           /\ merged[k].asset # merged[j].asset
           /\ \A e \in DOMAIN alarm : alarm[e].asset # merged[k].asset
           /\ merged[k].DateTime >= LastAlarmTime(j)
           /\ ~Annotated(k)

\* ------------------------------------------------- C17 (Alarm_algo.py)
\* C17: the script labels every sample whose valve position is 2 with 0,
\* whatever the input and whatever asset the previous row belongs to.
C17_Valve2LabelledZero ==
    \A k \in Looped : merged[k].valve_pos = 2 => merged[k].failure_period = 0

\* A valve-2 sample that closes a failure period while its alarm flag is set.
C17_Witness ==
    \E k \in Looped :
        /\ k > 1
        /\ merged[k].valve_pos = 2
        /\ merged[k].alarm_flag = 1
        /\ merged[k - 1].failure_period = 1
        /\ merged[k].failure_period = 0

\* ------------------------------------------------------ C18 (alarm.py)
StrictlyIncreasing(rows) ==
    \A k \in 2..Len(rows) : rows[k - 1].DateTime < rows[k].DateTime

\* C18: in the summary an asset's duration is present only if its failure
\* count is at least 1, a failure count of 0 comes with a missing duration,
\* and a duration that is present is strictly positive when the asset's
\* timestamps are strictly increasing.
C18_DurationNeedsCountAndIsPositive ==
    pc = "done" =>
        \A a \in DOMAIN summary :
            LET d == summary[a].failure_time_HiHi_injector_min
                n == summary[a].High_pressure_failures
            IN  /\ d # <<>> => n >= 1
                /\ n = 0 => d = <<>>
                /\ (d # <<>> /\ StrictlyIncreasing(AssetRows(a))) => d[1] > 0

\* An asset with strictly increasing timestamps and a duration.
C18_Witness ==
    /\ pc = "done"
    /\ \E a \in DOMAIN summary :
           /\ summary[a].failure_time_HiHi_injector_min # <<>>
           /\ summary[a].High_pressure_failures >= 1
           /\ StrictlyIncreasing(AssetRows(a))

\* ------------------------------------------------------ C19 (alarm.py)
\* No two trend samples of the asset lie within the horizon of each other.
Sparse(a) ==
    \A j, k \in DOMAIN trend :
        (trend[j].asset = a /\ trend[k].asset = a
            /\ trend[j].DateTime < trend[k].DateTime) =>
                trend[k].DateTime - trend[j].DateTime > Horizon

\* C19: when no two samples of an asset lie within 5 s of each other, as on
\* a 10 s grid, alarm.py labels no sample of that asset 1.
C19_SparseAssetNeverLabelled ==
    \A a \in AssetsOf(trend) :
        Sparse(a) => \A k \in Marked : merged[k].asset = a => Label(k) = 0

\* A sparse asset with a HiHi sample followed by a valve-1 sample, all of
\* its samples labelled 0.
C19_Witness ==
    /\ pc = "merge_drive"
    /\ \E j, k \in DOMAIN merged :
           /\ j < k
           /\ merged[j].asset = merged[k].asset
           /\ Sparse(merged[j].asset)
           /\ merged[j].alarm = 1
           /\ merged[k].valve_pos = 1
           /\ \A m \in DOMAIN merged :
                  merged[m].asset = merged[j].asset => Label(m) = 0

====
